---- MODULE Spec2Model ----
(***************************************************************************)
(* Notes Simplifier: the markup clean-up applied to the AI response        *)
(* (backend simplifyNotes, frontend FormattedNotesDisplay), the line       *)
(* classifier of FormattedNotesDisplay, and the format-dispatching text    *)
(* extractor extractTextFromFile with its PDF and Word leaf extractors.    *)
(*                                                                         *)
(* A JavaScript string is a sequence of UTF-16 code units.  A code unit is *)
(* written as a one-character TLA+ string when it is ASCII ("a", "*",      *)
(* "\n") and as its four hex digits otherwise ("2022" is the bullet,       *)
(* "D83C" a high surrogate).                                               *)
(***************************************************************************)
EXTENDS Integers, Sequences, FiniteSets, TLC

VARIABLES
    \* --- clean-up and classification of a notes text ---
    content,     \* the string handed to the first clean-up
    text,        \* the string after the clean-ups applied so far
    prevText,    \* the string before the last clean-up
    applied,     \* the call sites applied so far, in order
    blocks,      \* the blocks rendered by the last FormattedNotesDisplay
    \* --- text extraction of an uploaded file ---
    caller,      \* who calls extractTextFromFile: "direct" or "upload"
    hasFile,     \* the upload request carries a file (req.file)
    buffer,      \* the file's bytes, as runs of byte items
    mimetype,    \* the declared MIME type
    filename,    \* the original file name, a sequence of characters
    pc,          \* where the request stands
    invoked,     \* the leaf extractors invoked so far, in order
    consulted,   \* the fallback strategies looked at: "extension", "sniff"
    reader,      \* what the external PDF or Word reader answered
    outcome,     \* how extractTextFromFile ended: a return or a throw
    aiCalled,    \* simplifyNotes was called by the request handler
    res,         \* the HTTP response of the request
    \* --- simplifyNotes and POST /api/process-text ---
    reqText,     \* the text field of the body of POST /api/process-text
    processText, \* the document text placed in the prompt
    generateCalls, \* number of calls of model.generateContent
    notesResult, \* how simplifyNotes ended: a return or a throw
    responses,   \* number of responses sent for the request
    \* --- the state of the App component ---
    inputMode,   \* "file" or "text"
    file,        \* the selected file: <<>> for null, <<f>> for a File
    textInput,   \* the text of the textarea
    loading,     \* the loading flag
    results,     \* 0 for null, else the number of the run whose data is shown
    error,       \* the error message, <<>> for ''
    inflight,    \* requests of handleProcess awaiting their response
    runs,        \* requests issued by handleProcess so far
    downloads,   \* requests of handleDownload awaiting their response
    event        \* the last thing that happened in the component

notesVars == <<content, text, prevText, applied, blocks>>
extractVars == <<caller, hasFile, buffer, mimetype, filename, pc, invoked,
                 consulted, reader, outcome, aiCalled, res>>
apiVars == <<reqText, processText, generateCalls, notesResult, responses>>
vars == <<content, text, prevText, applied, blocks,
          caller, hasFile, buffer, mimetype, filename, pc, invoked,
          consulted, reader, outcome, aiCalled, res,
          reqText, processText, generateCalls, notesResult, responses,
          inputMode, file, textInput, loading, results, error, inflight, runs,
          downloads, event>>
uiVars == <<inputMode, file, textInput, loading, results, error, inflight, runs,
            downloads, event>>

----------------------------------------------------------------------------
(* Bounds of the model *)

\* longest notes text, in code units, over the markup alphabet
MaxLen == 4
\* longest notes text, in code points, over the glyph alphabet
MaxGlyphs == 3
\* number of clean-ups applied to one text
MaxPasses == 2
\* number of runs of equal byte items in a file
MaxRuns == 2
\* number of runs of equal characters in a pasted text
MaxTextRuns == 3
\* number of requests handleProcess issues in one session
MaxRequests == 2
\* number of downloads awaiting their response at one time
MaxDownloads == 1

----------------------------------------------------------------------------
(* Strings *)

Min(S) == CHOOSE x \in S : \A y \in S : x <= y

Range(s) == {s[i] : i \in 1..Len(s)}

\* all sequences over A of length at most n
SeqUpTo(A, n) == UNION {[1..k -> A] : k \in 0..n}

\* the line terminators the regular expression dot does not match
LineTerminators == {"\n", "\r", "2028", "2029"}

\* the characters matched by \s and removed by String.prototype.trim
WhiteSpace == {" ", "\t", "\n", "\r", "000B", "000C", "00A0", "FEFF", "2028", "2029"}

\* s has the literal m at index i
StartsWithAt(s, i, m) ==
    /\ i + Len(m) - 1 <= Len(s)
    /\ \A k \in 1..Len(m) : s[i + k - 1] = m[k]

\* no line terminator in s[from..to]
DotRun(s, from, to) == \A k \in from..to : s[k] \notin LineTerminators

\* String.prototype.trim
TrimStart(s) ==
    IF \A k \in 1..Len(s) : s[k] \in WhiteSpace THEN <<>>
    ELSE SubSeq(s, Min({k \in 1..Len(s) : s[k] \notin WhiteSpace}), Len(s))

TrimEnd(s) ==
    IF \A k \in 1..Len(s) : s[k] \in WhiteSpace THEN <<>>
    ELSE SubSeq(s, 1, CHOOSE k \in 1..Len(s) :
                        /\ s[k] \notin WhiteSpace
                        /\ \A j \in (k+1)..Len(s) : s[j] \in WhiteSpace)

Trim(s) == TrimEnd(TrimStart(s))

----------------------------------------------------------------------------
(* The clean-up substitutions: s.replace(/m(.*?)m/g, '$1') and friends *)

\* index of the closing marker of the lazy match /m(.*?)m/ that opens at i,
\* or 0 when the expression does not match at i
WrapperClose(s, i, m) ==
    LET from == i + Len(m)
        cand == {j \in from..Len(s) :
                    StartsWithAt(s, j, m) /\ DotRun(s, from, j - 1)}
    IN IF StartsWithAt(s, i, m) /\ cand # {} THEN Min(cand) ELSE 0

RECURSIVE StripWrapperFrom(_, _, _)
StripWrapperFrom(s, i, m) ==
    IF i > Len(s) THEN <<>>
    ELSE LET j == WrapperClose(s, i, m)
         IN IF j # 0
            THEN SubSeq(s, i + Len(m), j - 1) \o StripWrapperFrom(s, j + Len(m), m)
            ELSE <<s[i]>> \o StripWrapperFrom(s, i + 1, m)

\* s.replace(/m(.*?)m/g, '$1')
StripWrapper(s, m) == StripWrapperFrom(s, 1, m)

\* first index at or after i that is not white space (Len(s)+1 if none)
SkipSpace(s, i) ==
    Min({k \in i..(Len(s) + 1) : k = Len(s) + 1 \/ s[k] \notin WhiteSpace})

RECURSIVE StripHeadingFrom(_, _, _)
StripHeadingFrom(s, i, m) ==
    IF i > Len(s) THEN <<>>
    ELSE IF StartsWithAt(s, i, m)
         THEN StripHeadingFrom(s, SkipSpace(s, i + Len(m)), m)
         ELSE <<s[i]>> \o StripHeadingFrom(s, i + 1, m)

\* s.replace(/m\s*/g, '')
StripHeading(s, m) == StripHeadingFrom(s, 1, m)

\* the lazy match of /\[(.*?)\]\(.*?\)/ that opens at i: the indices of the
\* "]" and of the ")" it ends with, or <<0, 0>> when it does not match at i
LinkMatch(s, i) ==
    LET closes(k) == {e \in (k + 2)..Len(s) :
                         s[e] = ")" /\ DotRun(s, k + 2, e - 1)}
        cand == {k \in (i + 1)..(Len(s) - 1) :
                    /\ DotRun(s, i + 1, k - 1)
                    /\ s[k] = "]" /\ s[k + 1] = "("
                    /\ closes(k) # {}}
    IN IF i <= Len(s) /\ s[i] = "[" /\ cand # {}
       THEN <<Min(cand), Min(closes(Min(cand)))>>
       ELSE <<0, 0>>

RECURSIVE StripLinkFrom(_, _)
StripLinkFrom(s, i) ==
    IF i > Len(s) THEN <<>>
    ELSE LET mt == LinkMatch(s, i)
         IN IF mt[1] # 0
            THEN SubSeq(s, i + 1, mt[1] - 1) \o StripLinkFrom(s, mt[2] + 1)
            ELSE <<s[i]>> \o StripLinkFrom(s, i + 1)

\* s.replace(/\[(.*?)\]\(.*?\)/g, '$1')
StripLink(s) == StripLinkFrom(s, 1)

\* the markers
Star3 == <<"*", "*", "*">>
Star2 == <<"*", "*">>
Star1 == <<"*">>
Under2 == <<"_", "_">>
Under1 == <<"_">>
\* the grave accent (backtick), code unit 0060
Tick == <<"0060">>
Hash3 == <<"#", "#", "#">>
Hash2 == <<"#", "#">>
Hash1 == <<"#">>

\* the emphasis rules both call sites start with
StripEmphasis(s) ==
    StripWrapper(StripWrapper(StripWrapper(StripWrapper(StripWrapper(
        s, Star3), Star2), Star1), Under2), Under1)

StripHeadings(s) == StripHeading(StripHeading(StripHeading(s, Hash3), Hash2), Hash1)

\* the clean-up chain of simplifyNotes (backend)
simplifyNotesCleanup(s) ==
    StripLink(StripWrapper(StripHeadings(StripEmphasis(s)), Tick))

\* the clean-up chain of FormattedNotesDisplay (frontend)
cleanContent(s) ==
    StripHeadings(StripWrapper(StripEmphasis(s), Tick))

\* a match of one of the nine stripped patterns somewhere in s
Wrappers == {Star3, Star2, Star1, Under2, Under1, Tick}
Headings == {Hash3, Hash2, Hash1}

HasWrapper(s, m) == \E i \in 1..Len(s) : WrapperClose(s, i, m) # 0
HasHeading(s, m) == \E i \in 1..Len(s) : StartsWithAt(s, i, m)
HasMarker(s) ==
    \/ \E m \in Wrappers : HasWrapper(s, m)
    \/ \E m \in Headings : HasHeading(s, m)

----------------------------------------------------------------------------
(* The line classifier of FormattedNotesDisplay *)

\* s.split('\n')
RECURSIVE SplitLinesFrom(_, _, _)
SplitLinesFrom(s, i, cur) ==
    IF i > Len(s) THEN <<cur>>
    ELSE IF s[i] = "\n"
         THEN <<cur>> \o SplitLinesFrom(s, i + 1, <<>>)
         ELSE SplitLinesFrom(s, i + 1, Append(cur, s[i]))

SplitLines(s) == SplitLinesFrom(s, 1, <<>>)

\* UTF-16 encoding of the characters the model writes into a text
Utf16(cp) ==
    CASE cp = "U+1F3AF" -> <<"D83C", "DFAF">>    \* direct hit
      [] cp = "U+1F4A1" -> <<"D83D", "DCA1">>    \* light bulb
      [] cp = "U+2B50"  -> <<"2B50">>            \* star
      [] cp = "U+1F4DD" -> <<"D83D", "DCDD">>    \* memo
      [] cp = "U+1F50D" -> <<"D83D", "DD0D">>    \* magnifying glass
      [] cp = "U+1F4DA" -> <<"D83D", "DCDA">>    \* books
      [] cp = "U+2705"  -> <<"2705">>            \* check mark
      [] cp = "U+2022"  -> <<"2022">>            \* bullet
      [] OTHER -> <<cp>>

RECURSIVE Encode(_)
Encode(cps) == IF cps = <<>> THEN <<>> ELSE Utf16(Head(cps)) \o Encode(Tail(cps))

\* the five glyphs written in the character class of the header test
HeaderGlyphs == {"U+1F3AF", "U+1F4A1", "U+2B50", "U+1F4DD", "U+1F50D"}

\* /^[...]/ has no u flag: the class holds the code units of its glyphs
HeaderClass == UNION {Range(Utf16(g)) : g \in HeaderGlyphs}

Bullet == "2022"

ClassifyLine(line) ==
    LET trimmedLine == Trim(line)
    IN IF trimmedLine = <<>>
       THEN [kind |-> "Spacer", content |-> <<>>]
       ELSE IF trimmedLine[1] \in HeaderClass
       THEN [kind |-> "Header", content |-> trimmedLine]
       ELSE IF trimmedLine[1] = Bullet
       THEN [kind |-> "Bullet", content |-> Trim(SubSeq(trimmedLine, 2, Len(trimmedLine)))]
       ELSE [kind |-> "Paragraph", content |-> trimmedLine]

\* MapLines with the blank lines skipped instead of rendered as spacers
RECURSIVE MapLines_SkipBlank(_)
MapLines_SkipBlank(lines) ==
    IF lines = <<>> THEN <<>>
    ELSE IF Trim(Head(lines)) = <<>>
         THEN MapLines_SkipBlank(Tail(lines))
         ELSE <<ClassifyLine(Head(lines))>> \o MapLines_SkipBlank(Tail(lines))

\* lines.map(...)
RECURSIVE MapLines(_)
MapLines(lines) ==
    IF lines = <<>> THEN <<>>
    ELSE <<ClassifyLine(Head(lines))>> \o MapLines(Tail(lines))

FormattedNotesBlocks(s) == MapLines(SplitLines(cleanContent(s)))

----------------------------------------------------------------------------
(* State machine of the notes text *)

MarkupAlphabet == {"*", "_", "0060", "#", " ", "\n", "a", "[", "]", "(", ")"}

GlyphAlphabet == HeaderGlyphs \cup {"U+1F4DA", "U+2705", "U+2022", " ", "\n", "a", "#"}

None == [tag |-> "none", value |-> <<>>]

\* the App component as useState initializes it
UiStart ==
    /\ inputMode = "file"
    /\ file = <<>>
    /\ textInput = <<>>
    /\ loading = FALSE
    /\ results = 0
    /\ error = <<>>
    /\ inflight = 0
    /\ runs = 0
    /\ downloads = 0
    /\ event = "init"

ApiIdle ==
    /\ UiStart
    /\ reqText = [kind |-> "missing", value |-> <<>>]
    /\ processText = <<>>
    /\ generateCalls = 0
    /\ notesResult = None
    /\ responses = 0

ExtractIdle ==
    /\ ApiIdle
    /\ caller = "direct"
    /\ hasFile = FALSE
    /\ buffer = <<>>
    /\ mimetype = "text/plain"
    /\ filename = <<>>
    /\ pc = "idle"
    /\ invoked = <<>>
    /\ consulted = {}
    /\ reader = None
    /\ outcome = None
    /\ aiCalled = FALSE
    /\ res = [status |-> 0, body |-> <<>>]

NotesStart ==
    /\ text = content
    /\ prevText = content
    /\ applied = <<>>
    /\ blocks = <<>>

InitMarkup ==
    /\ content \in SeqUpTo(MarkupAlphabet, MaxLen)
    /\ NotesStart
    /\ ExtractIdle

InitGlyphs ==
    /\ content \in {Encode(cps) : cps \in SeqUpTo(GlyphAlphabet, MaxGlyphs)}
    /\ NotesStart
    /\ ExtractIdle

\* the backend cleans the response of the generative service; an empty or
\* blank response throws 'AI returned empty response' before the clean-up
SimplifyNotes ==
    /\ Len(applied) < MaxPasses
    /\ Trim(text) # <<>>
    /\ prevText' = text
    /\ text' = simplifyNotesCleanup(text)
    /\ applied' = Append(applied, "backend")
    /\ UNCHANGED <<content, blocks>>
    /\ UNCHANGED extractVars
    /\ UNCHANGED uiVars
    /\ UNCHANGED apiVars

\* the frontend cleans the notes it is given and renders one block per line
FormattedNotesDisplay ==
    /\ Len(applied) < MaxPasses
    /\ prevText' = text
    /\ text' = cleanContent(text)
    /\ blocks' = FormattedNotesBlocks(text)
    /\ applied' = Append(applied, "frontend")
    /\ UNCHANGED content
    /\ UNCHANGED extractVars
    /\ UNCHANGED uiVars
    /\ UNCHANGED apiVars

NextNotes == SimplifyNotes \/ FormattedNotesDisplay

SpecNormalize == InitMarkup /\ [][NextNotes]_vars
SpecDisplay == InitGlyphs /\ [][NextNotes]_vars

----------------------------------------------------------------------------
(* Text extraction.  A file may hold megabytes, so its bytes and the strings *)
(* decoded from them are run-length encoded: a sequence of runs             *)
(* [ch |-> unit, n |-> count].  A literal of the program is a single run    *)
(* holding the whole literal.                                               *)

Lit(s) == <<[ch |-> s, n |-> 1]>>

\* the byte items a file is made of: a letter, a space, a 4-byte emoji
ByteItems == {"61", "20", "F09F939A"}
ByteLen(b) == IF b = "F09F939A" THEN 4 ELSE 1

\* buffer.toString('utf-8') of one byte item, and the code units it yields
Utf8Char(b) ==
    CASE b = "61" -> "a"
      [] b = "20" -> " "
      [] b = "F09F939A" -> "D83DDCDA"
UnitLen(ch) == IF ch = "D83DDCDA" THEN 2 ELSE 1

\* buffer.toString('utf-8')
Utf8Decode(buf) == [i \in 1..Len(buf) |-> [ch |-> Utf8Char(buf[i].ch), n |-> buf[i].n]]

RECURSIVE ByteSize(_)
ByteSize(buf) ==
    IF buf = <<>> THEN 0 ELSE Head(buf).n * ByteLen(Head(buf).ch) + ByteSize(Tail(buf))

\* s.length
RECURSIVE StrLen(_)
StrLen(str) ==
    IF str = <<>> THEN 0 ELSE Head(str).n * UnitLen(Head(str).ch) + StrLen(Tail(str))

\* s.trim()
RECURSIVE StrTrimStart(_)
StrTrimStart(str) ==
    IF str = <<>> THEN <<>>
    ELSE IF Head(str).ch \in WhiteSpace THEN StrTrimStart(Tail(str)) ELSE str

RECURSIVE StrTrimEnd(_)
StrTrimEnd(str) ==
    IF str = <<>> THEN <<>>
    ELSE IF str[Len(str)].ch \in WhiteSpace
         THEN StrTrimEnd(SubSeq(str, 1, Len(str) - 1)) ELSE str

StrTrim(str) == StrTrimEnd(StrTrimStart(str))

\* the characters of a file name as a string
CharsToStr(cs) == [i \in 1..Len(cs) |-> [ch |-> cs[i], n |-> 1]]

\* s.toLowerCase() on the characters of a file name
UpperCase == <<"A", "B", "C", "D", "E", "F", "G", "H", "I", "J", "K", "L", "M",
               "N", "O", "P", "Q", "R", "S", "T", "U", "V", "W", "X", "Y", "Z">>
LowerCase == <<"a", "b", "c", "d", "e", "f", "g", "h", "i", "j", "k", "l", "m",
               "n", "o", "p", "q", "r", "s", "t", "u", "v", "w", "x", "y", "z">>
LowerChar(c) ==
    IF \E k \in 1..26 : UpperCase[k] = c
    THEN LowerCase[CHOOSE k \in 1..26 : UpperCase[k] = c]
    ELSE c
ToLowerCase(cs) == [i \in 1..Len(cs) |-> LowerChar(cs[i])]

Max(S) == CHOOSE x \in S : \A y \in S : x >= y

\* path.extname: from the last dot of the last path component, empty when
\* there is no dot or the component starts with its only dot
Extname(path) ==
    LET slashes == {k \in 1..Len(path) : path[k] = "/"}
        start == IF slashes = {} THEN 1 ELSE Max(slashes) + 1
        dots == {k \in start..Len(path) : path[k] = "."}
    IN IF dots = {} \/ Max(dots) = start
          \/ (Len(path) = start + 1 /\ dots = {start, start + 1})
       THEN <<>>
       ELSE SubSeq(path, Max(dots), Len(path))

\* the literals of the program
TextPlain == "text/plain"
ApplicationPdf == "application/pdf"
Docx == "application/vnd.openxmlformats-officedocument.wordprocessingml.document"
MsWord == "application/msword"
Undefined == "<undefined>"

NoPdfText == Lit("No readable text found in PDF")
PdfDegraded == Lit("PDF text extraction failed. The PDF might be image-based or corrupted. Please try copying the text manually.")
NoWordText == Lit("No text found in Word document")
PdfParsingFailed == Lit("PDF parsing failed: ")
WordFailed == Lit("Failed to extract text from Word document: ")
ExtractFailed == Lit("Failed to extract text from file: ")
UnsupportedType == Lit("Unsupported file type: ")
SupportedFormats == Lit("). Supported formats: PDF, Word (.docx, .doc), Text (.txt, .md, .csv)")

Return(v) == [tag |-> "return", value |-> v]
Throw(m) == [tag |-> "throw", value |-> m]

\* x || alternative, for strings
OrElse(str, alt) == IF str = <<>> THEN alt ELSE str

\* safePdfParse: the reader's result, its error rethrown with a prefix
safePdfParse(r) ==
    IF r.tag = "throw" THEN Throw(PdfParsingFailed \o r.value) ELSE r

\* extractTextFromPDF with the throw of the reader passed on
extractTextFromPDF_Rethrow(r) ==
    LET data == safePdfParse(r)
    IN IF data.tag = "throw" THEN data
       ELSE Return(OrElse(StrTrim(data.value), NoPdfText))

\* extractTextFromPDF, given what the reader answers
extractTextFromPDF(r) ==
    LET data == safePdfParse(r)
    IN IF data.tag = "throw" THEN Return(PdfDegraded)
       ELSE Return(OrElse(StrTrim(data.value), NoPdfText))

\* extractTextFromWord with a placeholder returned when the reader throws
extractTextFromWord_Placeholder(r) ==
    IF r.tag = "throw" THEN Return(NoWordText)
    ELSE Return(OrElse(StrTrim(r.value), NoWordText))

\* extractTextFromWord, given what the reader answers
extractTextFromWord(r) ==
    IF r.tag = "throw" THEN Throw(WordFailed \o r.value)
    ELSE Return(OrElse(StrTrim(r.value), NoWordText))

\* the catch around the body of extractTextFromFile
CatchAll(r) == IF r.tag = "throw" THEN Throw(ExtractFailed \o r.value) ELSE r

KnownMimes == {TextPlain, ApplicationPdf, Docx, MsWord}
PlainExts == {<<".", "t", "x", "t">>, <<".", "m", "d">>, <<".", "c", "s", "v">>}
PdfExts == {<<".", "p", "d", "f">>}
WordExts == {<<".", "d", "o", "c", "x">>, <<".", "d", "o", "c">>}

\* the extension as the inner switch sees it, without the toLowerCase
Ext_CaseSensitive(name) == Extname(name)

\* const ext = path.extname(filename).toLowerCase()
Ext(name) == ToLowerCase(Extname(name))

\* the two switches with the extension looked at before the MIME type
Route_ExtensionFirst(mime, name) ==
    IF Ext(name) \in PlainExts THEN [leaf |-> "plain", consulted |-> {"extension"}]
    ELSE IF Ext(name) \in PdfExts THEN [leaf |-> "pdf", consulted |-> {"extension"}]
    ELSE IF Ext(name) \in WordExts THEN [leaf |-> "word", consulted |-> {"extension"}]
    ELSE IF mime = TextPlain THEN [leaf |-> "plain", consulted |-> {"extension"}]
    ELSE IF mime = ApplicationPdf THEN [leaf |-> "pdf", consulted |-> {"extension"}]
    ELSE IF mime \in {Docx, MsWord} THEN [leaf |-> "word", consulted |-> {"extension"}]
    ELSE [leaf |-> "sniff", consulted |-> {"extension", "sniff"}]

\* the two switches of extractTextFromFile: the strategy chosen and the
\* fallbacks looked at on the way
Route(mime, name) ==
    IF mime = TextPlain THEN [leaf |-> "plain", consulted |-> {}]
    ELSE IF mime = ApplicationPdf THEN [leaf |-> "pdf", consulted |-> {}]
    ELSE IF mime \in {Docx, MsWord} THEN [leaf |-> "word", consulted |-> {}]
    ELSE IF Ext(name) \in PlainExts THEN [leaf |-> "plain", consulted |-> {"extension"}]
    ELSE IF Ext(name) \in PdfExts THEN [leaf |-> "pdf", consulted |-> {"extension"}]
    ELSE IF Ext(name) \in WordExts THEN [leaf |-> "word", consulted |-> {"extension"}]
    ELSE [leaf |-> "sniff", consulted |-> {"extension", "sniff"}]

\* "Reasonable text file size"
SniffLimit == 1000000

\* the size test of the sniffing with the bound included
SniffAccepts_Inclusive(str) == StrLen(str) > 0 /\ StrLen(str) <= SniffLimit

\* text.length > 0 && text.length < 1000000
SniffAccepts(str) == StrLen(str) > 0 /\ StrLen(str) < SniffLimit

\* the message of the Unsupported file type error
UnsupportedMessage(mime, name) ==
    UnsupportedType
    \o Lit(IF mime \in {Undefined, ""} THEN "unknown" ELSE mime)
    \o Lit(" (")
    \o OrElse(CharsToStr(Ext(name)), Lit("no extension"))
    \o SupportedFormats

\* multer: limits.fileSize
FileSizeLimit == 10 * 1024 * 1024

----------------------------------------------------------------------------
(* simplifyNotes and the validation of POST /api/process-text *)

\* const maxLength = 100000
MaxLength == 100000

\* the 200k character limit of POST /api/process-text
TextLimit == 200000

\* s.substring(0, n): the first n code units; a surrogate pair cut in the
\* middle leaves its high surrogate
RECURSIVE Substring(_, _)
Substring(str, n) ==
    IF n = 0 \/ str = <<>> THEN <<>>
    ELSE LET h == Head(str)
             u == UnitLen(h.ch)
         IN IF h.n * u <= n
            THEN <<h>> \o Substring(Tail(str), n - h.n * u)
            ELSE (IF n \div u > 0 THEN <<[ch |-> h.ch, n |-> n \div u]>> ELSE <<>>)
                 \o (IF n % u = 1 THEN <<[ch |-> "D83D", n |-> 1]>> ELSE <<>>)

\* !text || text.trim().length === 0
IsBlankText(str) == str = <<>> \/ StrTrim(str) = <<>>

\* processText with the cut text not marked by '...'
ProcessText_NoEllipsis(str) ==
    IF StrLen(str) > MaxLength THEN Substring(str, MaxLength) ELSE str

\* const processText = text.length > maxLength ? ... : text
ProcessText(str) ==
    IF StrLen(str) > MaxLength THEN Substring(str, MaxLength) \o Lit("...") ELSE str

\* error.message.includes(w), for a message made of word chunks
Includes(m, w) == \E i \in 1..Len(m) : m[i].ch = w

\* the catch of simplifyNotes: the message it rethrows
simplifyNotesError(m) ==
    IF Includes(m, "API_KEY")
    THEN Lit("Invalid API key. Please check your Gemini API key configuration.")
    ELSE IF Includes(m, "quota")
    THEN Lit("API quota exceeded. Please try again later or check your Gemini API limits.")
    ELSE IF Includes(m, "timeout")
    THEN Lit("AI processing timed out. Please try with shorter content.")
    ELSE Lit("AI processing failed: ") \o m

\* simplifyNotes after the await of model.generateContent, given its answer
simplifyNotesSettle(r) ==
    IF r.tag = "throw" THEN Throw(simplifyNotesError(r.value))
    ELSE IF r.value = <<>> \/ Trim(r.value) = <<>>
    THEN Throw(simplifyNotesError(Lit("AI returned empty response")))
    ELSE Return(simplifyNotesCleanup(r.value))

\* the length test of POST /api/process-text with the limit moved by one
TooLong_OffByOne(str) == StrLen(str) > TextLimit + 1

\* text.length > 200000
TooLong(str) == StrLen(str) > TextLimit

\* the 400 message of POST /api/process-text, empty when the text is accepted
ProcessTextError(t) ==
    IF t.kind # "string" \/ t.value = <<>> THEN Lit("No text provided")
    ELSE IF StrTrim(t.value) = <<>> THEN Lit("Text cannot be empty")
    ELSE IF TooLong(t.value)
    THEN Lit("Text is too long. Please limit to 200,000 characters.")
    ELSE <<>>

\* the text test of POST /api/upload with only the empty string refused
UploadRejectsText_EmptyOnly(str) == str = <<>>

\* !extractedText || extractedText.trim().length === 0
UploadRejectsText(str) == str = <<>> \/ StrTrim(str) = <<>>

----------------------------------------------------------------------------
(* State machine of one extraction, called directly or by POST /api/upload *)

Runs == {[ch |-> "61", n |-> 1], [ch |-> "61", n |-> 999999],
         [ch |-> "20", n |-> 1],
         [ch |-> "F09F939A", n |-> 1], [ch |-> "F09F939A", n |-> 499999]}
Buffers == SeqUpTo(Runs, MaxRuns)

MimeTypes == KnownMimes \cup {"application/octet-stream", "", Undefined}

Stems == {<<>>, <<"a">>}
Suffixes == {<<>>, <<".">>, <<".", "b", "i", "n">>,
             <<".", "t", "x", "t">>, <<".", "T", "X", "T">>, <<".", "m", "d">>,
             <<".", "c", "s", "v">>, <<".", "p", "d", "f">>, <<".", "P", "d", "f">>,
             <<".", "d", "o", "c", "x">>, <<".", "d", "o", "c">>, <<".", "D", "O", "C">>}
FileNames == {st \o su : st \in Stems, su \in Suffixes}

\* what pdf-parse or mammoth may answer
ReaderTexts == {<<>>,
                <<[ch |-> " ", n |-> 1]>>,
                <<[ch |-> "a", n |-> 1]>>,
                <<[ch |-> " ", n |-> 1], [ch |-> "a", n |-> 1], [ch |-> "\n", n |-> 1]>>}
ReaderErrors == {Lit("Invalid PDF structure"), Lit("End of data reached")}
ReaderResults == {Return(t) : t \in ReaderTexts} \cup {Throw(m) : m \in ReaderErrors}

NotesIdle ==
    /\ content = <<>>
    /\ NotesStart

\* the texts pasted into POST /api/process-text
TextRuns == {[ch |-> "a", n |-> 1], [ch |-> "a", n |-> 100000],
             [ch |-> " ", n |-> 1], [ch |-> "D83DDCDA", n |-> 50000]}
ReqTexts == {[kind |-> "missing", value |-> <<>>], [kind |-> "number", value |-> <<>>]}
            \cup {[kind |-> "string", value |-> v] : v \in SeqUpTo(TextRuns, MaxTextRuns)}

\* what model.generateContent may answer: a response text or an error
ServiceResults ==
    {Return(t) : t \in {<<>>, <<" ">>, <<"a">>, <<"*", "a", "*">>}}
    \cup {Throw(m) : m \in {Lit("API_KEY"), Lit("quota"), Lit("timeout"), Lit("fetch failed")}}

InitExtract ==
    /\ NotesIdle
    /\ UiStart
    /\ caller \in {"direct", "upload", "process-text", "simplify"}
    /\ hasFile \in BOOLEAN
    /\ caller = "direct" => hasFile
    /\ caller \in {"process-text", "simplify"} => ~hasFile
    /\ reqText \in ReqTexts
    /\ caller \in {"direct", "upload"} => reqText.kind = "missing"
    /\ caller = "simplify" => reqText.kind = "string"
    /\ processText = <<>>
    /\ generateCalls = 0
    /\ notesResult = None
    /\ responses = 0
    /\ IF hasFile
       THEN /\ buffer \in Buffers
            /\ mimetype \in MimeTypes
            /\ filename \in FileNames
            \* multer rejects a larger file and always sets a mimetype
            /\ caller = "upload" =>
                   ByteSize(buffer) <= FileSizeLimit /\ mimetype # Undefined
       ELSE buffer = <<>> /\ mimetype = Undefined /\ filename = <<>>
    /\ pc = IF caller = "direct" THEN "start" ELSE caller
    /\ invoked = <<>>
    /\ consulted = {}
    /\ reader = None
    /\ outcome = None
    /\ aiCalled = FALSE
    /\ res = [status |-> 0, body |-> <<>>]

Respond(status, body) ==
    /\ res' = [status |-> status, body |-> body]
    /\ responses' = responses + 1
    /\ pc' = "responded"

\* POST /api/upload up to the call of extractTextFromFile
UploadReceived ==
    /\ pc = "upload"
    /\ IF ~hasFile THEN Respond(400, Lit("No file uploaded"))
       ELSE IF ByteSize(buffer) = 0 THEN Respond(400, Lit("Uploaded file is empty"))
       ELSE pc' = "start" /\ UNCHANGED <<res, responses>>
    /\ UNCHANGED <<caller, hasFile, buffer, mimetype, filename, invoked,
                   consulted, reader, outcome, aiCalled>>
    /\ UNCHANGED <<reqText, processText, generateCalls, notesResult>>
    /\ UNCHANGED notesVars
    /\ UNCHANGED uiVars

\* extractTextFromFile, plain-text decode by MIME type or by extension
ExtractPlain ==
    /\ pc = "start"
    /\ Route(mimetype, filename).leaf = "plain"
    /\ consulted' = Route(mimetype, filename).consulted
    /\ invoked' = Append(invoked, "plain")
    /\ outcome' = CatchAll(Return(Utf8Decode(buffer)))
    /\ pc' = "extracted"
    /\ UNCHANGED <<caller, hasFile, buffer, mimetype, filename, reader, aiCalled, res>>
    /\ UNCHANGED apiVars
    /\ UNCHANGED notesVars
    /\ UNCHANGED uiVars

\* extractTextFromFile, up to the await of the PDF reader
ExtractCallPdf ==
    /\ pc = "start"
    /\ Route(mimetype, filename).leaf = "pdf"
    /\ consulted' = Route(mimetype, filename).consulted
    /\ invoked' = Append(invoked, "pdf")
    /\ pc' = "pdf"
    /\ UNCHANGED <<caller, hasFile, buffer, mimetype, filename, reader, outcome,
                   aiCalled, res>>
    /\ UNCHANGED apiVars
    /\ UNCHANGED notesVars
    /\ UNCHANGED uiVars

\* extractTextFromFile, up to the await of the Word reader
ExtractCallWord ==
    /\ pc = "start"
    /\ Route(mimetype, filename).leaf = "word"
    /\ consulted' = Route(mimetype, filename).consulted
    /\ invoked' = Append(invoked, "word")
    /\ pc' = "word"
    /\ UNCHANGED <<caller, hasFile, buffer, mimetype, filename, reader, outcome,
                   aiCalled, res>>
    /\ UNCHANGED apiVars
    /\ UNCHANGED notesVars
    /\ UNCHANGED uiVars

\* extractTextFromFile, neither MIME type nor extension known: read as text
ExtractSniff ==
    /\ pc = "start"
    /\ Route(mimetype, filename).leaf = "sniff"
    /\ consulted' = Route(mimetype, filename).consulted
    /\ outcome' = CatchAll(
            IF SniffAccepts(Utf8Decode(buffer))
            THEN Return(Utf8Decode(buffer))
            ELSE Throw(UnsupportedMessage(mimetype, filename)))
    /\ pc' = "extracted"
    /\ UNCHANGED <<caller, hasFile, buffer, mimetype, filename, invoked, reader,
                   aiCalled, res>>
    /\ UNCHANGED apiVars
    /\ UNCHANGED notesVars
    /\ UNCHANGED uiVars

\* the PDF reader answers and extractTextFromPDF, extractTextFromFile finish
PdfParseSettles ==
    /\ pc = "pdf"
    /\ \E r \in ReaderResults :
        /\ reader' = r
        /\ outcome' = CatchAll(extractTextFromPDF(r))
    /\ pc' = "extracted"
    /\ UNCHANGED <<caller, hasFile, buffer, mimetype, filename, invoked, consulted,
                   aiCalled, res>>
    /\ UNCHANGED apiVars
    /\ UNCHANGED notesVars
    /\ UNCHANGED uiVars

\* the Word reader answers and extractTextFromWord, extractTextFromFile finish
WordExtractSettles ==
    /\ pc = "word"
    /\ \E r \in ReaderResults :
        /\ reader' = r
        /\ outcome' = CatchAll(extractTextFromWord(r))
    /\ pc' = "extracted"
    /\ UNCHANGED <<caller, hasFile, buffer, mimetype, filename, invoked, consulted,
                   aiCalled, res>>
    /\ UNCHANGED apiVars
    /\ UNCHANGED notesVars
    /\ UNCHANGED uiVars

\* POST /api/upload after the extraction, up to the call of simplifyNotes
UploadExtracted ==
    /\ pc = "extracted"
    /\ caller = "upload"
    /\ IF outcome.tag = "throw"
       THEN Respond(500, outcome.value) /\ UNCHANGED aiCalled
       ELSE IF UploadRejectsText(outcome.value)
       THEN Respond(400, Lit("No readable text found in the uploaded file"))
            /\ UNCHANGED aiCalled
       ELSE pc' = "simplify" /\ aiCalled' = TRUE /\ UNCHANGED <<res, responses>>
    /\ UNCHANGED <<caller, hasFile, buffer, mimetype, filename, invoked, consulted,
                   reader, outcome>>
    /\ UNCHANGED <<reqText, processText, generateCalls, notesResult>>
    /\ UNCHANGED notesVars
    /\ UNCHANGED uiVars

\* POST /api/process-text up to the call of simplifyNotes
ProcessTextReceived ==
    /\ pc = "process-text"
    /\ IF ProcessTextError(reqText) # <<>>
       THEN Respond(400, ProcessTextError(reqText)) /\ UNCHANGED aiCalled
       ELSE pc' = "simplify" /\ aiCalled' = TRUE /\ UNCHANGED <<res, responses>>
    /\ UNCHANGED <<caller, hasFile, buffer, mimetype, filename, invoked, consulted,
                   reader, outcome>>
    /\ UNCHANGED <<reqText, processText, generateCalls, notesResult>>
    /\ UNCHANGED notesVars
    /\ UNCHANGED uiVars

\* the text simplifyNotes is called with
SimplifyInput == IF caller = "upload" THEN outcome.value ELSE reqText.value

\* simplifyNotes has ended with r: its caller goes on, a handler by sending
\* its 200 answer or, from its catch, the 500 answer with the message
Finish(r) ==
    IF caller = "simplify" THEN pc' = "returned" /\ UNCHANGED <<res, responses>>
    ELSE IF r.tag = "return" THEN Respond(200, Lit("success"))
    ELSE Respond(500, r.value)

\* simplifyNotes up to the await of model.generateContent
SimplifyNotesCall ==
    /\ pc = "simplify"
    /\ IF IsBlankText(SimplifyInput)
       THEN /\ notesResult' = Throw(Lit("No text provided for processing"))
            /\ Finish(Throw(Lit("No text provided for processing")))
            /\ UNCHANGED <<processText, generateCalls>>
       ELSE /\ processText' = ProcessText(SimplifyInput)
            /\ generateCalls' = generateCalls + 1
            /\ pc' = "generating"
            /\ UNCHANGED <<notesResult, res, responses>>
    /\ UNCHANGED <<caller, hasFile, buffer, mimetype, filename, invoked, consulted,
                   reader, outcome, aiCalled, reqText>>
    /\ UNCHANGED notesVars
    /\ UNCHANGED uiVars

\* model.generateContent answers; simplifyNotes and its caller finish
GenerateSettles ==
    /\ pc = "generating"
    /\ \E r \in ServiceResults :
        /\ notesResult' = simplifyNotesSettle(r)
        /\ Finish(simplifyNotesSettle(r))
    /\ UNCHANGED <<caller, hasFile, buffer, mimetype, filename, invoked, consulted,
                   reader, outcome, aiCalled, reqText, processText, generateCalls>>
    /\ UNCHANGED notesVars
    /\ UNCHANGED uiVars

NextExtract ==
    \/ UploadReceived
    \/ ExtractPlain
    \/ ExtractCallPdf
    \/ ExtractCallWord
    \/ ExtractSniff
    \/ PdfParseSettles
    \/ WordExtractSettles
    \/ UploadExtracted
    \/ ProcessTextReceived
    \/ SimplifyNotesCall
    \/ GenerateSettles

SpecExtract == InitExtract /\ [][NextExtract]_vars

----------------------------------------------------------------------------
(* The App component: file selection, text input, handleProcess and        *)
(* handleDownload                                                           *)

supportedTypes == {"text/plain", "application/pdf",
                   "application/vnd.openxmlformats-officedocument.wordprocessingml.document",
                   "application/msword", "text/markdown", "text/csv"}
supportedExtensions == {<<".", "t", "x", "t">>, <<".", "p", "d", "f">>,
                        <<".", "d", "o", "c", "x">>, <<".", "d", "o", "c">>,
                        <<".", "m", "d">>, <<".", "c", "s", "v">>}

\* name.toLowerCase().substring(name.lastIndexOf('.')): with no dot the
\* index is -1 and the substring is the whole name
fileExtension(name) ==
    LET dots == {k \in 1..Len(name) : name[k] = "."}
    IN IF dots = {} THEN ToLowerCase(name)
       ELSE SubSeq(ToLowerCase(name), Max(dots), Len(name))

FileSupported(f) ==
    f.type \in supportedTypes \/ fileExtension(f.name) \in supportedExtensions

\* the files a user may pick, the texts a user may type
UiFiles == [type : {"application/pdf", "image/png"},
            name : {<<"a", ".", "P", "D", "F">>, <<"a", ".", "p", "n", "g">>}]
UiTexts == {<<>>,
            <<[ch |-> " ", n |-> 1]>>,
            <<[ch |-> "a", n |-> 1]>>,
            <<[ch |-> "a", n |-> 100000], [ch |-> "a", n |-> 100000]>>,
            <<[ch |-> "a", n |-> 100000], [ch |-> "a", n |-> 100000], [ch |-> "a", n |-> 1]>>}

\* how the request of handleProcess may settle: a response, an error with
\* a response, a timeout, a network error
SettleOutcomes ==
    [code : {""}, status : {200}, success : BOOLEAN, msg : {<<>>}]
    \cup [code : {"ERR_BAD_RESPONSE"}, status : {400, 413, 500}, success : {FALSE},
          msg : {<<>>, Lit("No readable text found in the uploaded file")}]
    \cup [code : {"ECONNABORTED", "ERR_NETWORK", "ERR_CANCELED"}, status : {0},
          success : {FALSE}, msg : {<<>>}]

InitUI ==
    /\ NotesIdle
    /\ ExtractIdle

\* the validation at the head of handleProcess: its message, <<>> when passed
ValidationError(mode, f, t) ==
    IF mode = "file" /\ f = <<>> THEN Lit("Please select a file first")
    ELSE IF mode = "text" /\ StrTrim(t) = <<>> THEN Lit("Please enter some text to process")
    ELSE IF mode = "text" /\ StrLen(t) > TextLimit
    THEN Lit("Text is too long. Please limit to 200,000 characters.")
    ELSE <<>>

\* the disabled attribute of the Simplify Notes button
ButtonDisabled ==
    \/ (inputMode = "file" /\ file = <<>>)
    \/ (inputMode = "text" /\ StrTrim(textInput) = <<>>)
    \/ loading

\* the message handleProcess sets for a settled request, given the message
\* shown before; a response with success true sets none
SettleError(o, before) ==
    IF o.code = "" /\ o.status = 200
    THEN IF o.success THEN before
         ELSE Lit("Unexpected response from server. Please try again.")
    ELSE IF o.code = "ECONNABORTED"
    THEN Lit("Request timed out. The AI is taking too long to process. Please try with shorter content.")
    ELSE IF o.status = 500
    THEN Lit("Server error: ") \o OrElse(o.msg, Lit("Internal server error. Please try again."))
    ELSE IF o.status = 400
    THEN Lit("Input error: ") \o OrElse(o.msg, Lit("Invalid input. Please check your content."))
    ELSE IF o.code = "ERR_NETWORK"
    THEN Lit("Network error. Please check if the server is running and try again.")
    ELSE OrElse(o.msg, Lit("Failed to process content. Please try again."))

\* loading reset only at the end of the try block, not in a finally
LoadingAfter_TryOnly(o) == ~(o.code = "" /\ o.status = 200)

\* the loading flag after the request settled: finally { setLoading(false) }
LoadingAfter(o) == FALSE

\* the mode buttons
SetInputMode ==
    /\ \E m \in {"file", "text"} : inputMode' = m
    /\ event' = "mode"
    /\ UNCHANGED <<file, textInput, loading, results, error, inflight, runs, downloads>>
    /\ UNCHANGED <<notesVars, extractVars, apiVars>>

\* handleFileSelect, from the file input or a drop; <<>> is no file
HandleFileSelect ==
    /\ inputMode = "file"
    /\ \E sel \in {<<>>} \cup {<<f>> : f \in UiFiles} :
        IF sel # <<>>
        THEN /\ file' = sel
             /\ error' = IF FileSupported(sel[1]) THEN <<>>
                         ELSE Lit("File type not fully supported, but we'll try to extract text from it.")
        ELSE /\ error' = Lit("Please select a file")
             /\ UNCHANGED file
    /\ event' = "file"
    /\ UNCHANGED <<inputMode, textInput, loading, results, inflight, runs, downloads>>
    /\ UNCHANGED <<notesVars, extractVars, apiVars>>

\* the textarea
SetTextInput ==
    /\ inputMode = "text"
    /\ \E t \in UiTexts : textInput' = t
    /\ event' = "text"
    /\ UNCHANGED <<inputMode, file, loading, results, error, inflight, runs, downloads>>
    /\ UNCHANGED <<notesVars, extractVars, apiVars>>

\* a click on Simplify Notes: handleProcess up to its await
HandleProcess ==
    /\ ~ButtonDisabled
    /\ IF ValidationError(inputMode, file, textInput) # <<>>
       THEN /\ error' = ValidationError(inputMode, file, textInput)
            /\ event' = "rejected"
            /\ UNCHANGED <<loading, results, inflight, runs>>
       ELSE /\ runs < MaxRequests
            /\ loading' = TRUE
            /\ error' = <<>>
            /\ results' = 0
            /\ inflight' = inflight + 1
            /\ runs' = runs + 1
            /\ event' = "sent"
    /\ UNCHANGED <<inputMode, file, textInput, downloads>>
    /\ UNCHANGED <<notesVars, extractVars, apiVars>>

\* the request settles: handleProcess from its await to its end
RequestSettles ==
    /\ inflight > 0
    /\ \E o \in SettleOutcomes :
        /\ results' = IF o.code = "" /\ o.status = 200 /\ o.success THEN runs ELSE results
        /\ error' = SettleError(o, error)
        /\ loading' = LoadingAfter(o)
    /\ inflight' = inflight - 1
    /\ event' = "settled"
    /\ UNCHANGED <<inputMode, file, textInput, runs, downloads>>
    /\ UNCHANGED <<notesVars, extractVars, apiVars>>

\* a click on Download Notes: handleDownload up to its await
HandleDownload ==
    /\ results # 0
    /\ downloads < MaxDownloads
    /\ downloads' = downloads + 1
    /\ event' = "download"
    /\ UNCHANGED <<inputMode, file, textInput, loading, results, error, inflight, runs>>
    /\ UNCHANGED <<notesVars, extractVars, apiVars>>

\* the download request settles: the file is saved, or the catch sets error
DownloadSettles ==
    /\ downloads > 0
    /\ \E ok \in BOOLEAN :
        error' = IF ok THEN error ELSE Lit("Failed to generate PDF")
    /\ downloads' = downloads - 1
    /\ event' = "downloaded"
    /\ UNCHANGED <<inputMode, file, textInput, loading, results, inflight, runs>>
    /\ UNCHANGED <<notesVars, extractVars, apiVars>>

NextUI ==
    \/ SetInputMode
    \/ HandleFileSelect
    \/ SetTextInput
    \/ HandleProcess
    \/ RequestSettles
    \/ HandleDownload
    \/ DownloadSettles

SpecUI == InitUI /\ [][NextUI]_vars

\* axios settles every request, at the latest by its 90 second timeout
SpecUIFair == SpecUI /\ WF_vars(RequestSettles)

----------------------------------------------------------------------------
(* Claims about the extraction *)

\* extractTextFromFile has chosen its strategy; it has returned or thrown
Dispatched == invoked # <<>> \/ outcome.tag # "none"
Extracted == outcome.tag # "none"

UnknownMime == mimetype \notin KnownMimes

\* the name ends, whatever the case, with the extension e after a stem
HasExt(name, e) ==
    /\ Len(name) > Len(e)
    /\ ToLowerCase(SubSeq(name, Len(name) - Len(e) + 1, Len(name))) = e
    /\ name[Len(name) - Len(e)] # "/"

NoRecognizedExt(name) ==
    \A e \in PlainExts \cup PdfExts \cup WordExts : ~HasExt(name, e)

\* the number of code units the bytes decode to
RECURSIVE DecodedLen(_)
DecodedLen(buf) ==
    IF buf = <<>> THEN 0
    ELSE Head(buf).n * (IF ByteLen(Head(buf).ch) = 4 THEN 2 ELSE 1)
         + DecodedLen(Tail(buf))

\* sub occurs in str as a run of consecutive elements
Contains(str, sub) ==
    \E i \in 0..(Len(str) - Len(sub)) : SubSeq(str, i + 1, i + Len(sub)) = sub

IsUnsupportedFormat(r) == r.tag = "throw" /\ Contains(r.value, UnsupportedType)

\* C3: with an unknown MIME type and no recognized extension the extraction
\* returns the decoded text exactly when its length is in (0, 1000000), and
\* otherwise throws Unsupported file type, naming the type and the extension.
C3_Sniff ==
    (Extracted /\ UnknownMime /\ NoRecognizedExt(filename)) =>
        IF 0 < DecodedLen(buffer) /\ DecodedLen(buffer) < 1000000
        THEN outcome = Return(Utf8Decode(buffer))
        ELSE /\ IsUnsupportedFormat(outcome)
             /\ Contains(outcome.value,
                    Lit(IF mimetype \in {Undefined, ""} THEN "unknown" ELSE mimetype))
             /\ Contains(outcome.value,
                    IF Ext(filename) = <<>> THEN Lit("no extension")
                    ELSE CharsToStr(Ext(filename)))

C3_Witness ==
    /\ Extracted /\ UnknownMime /\ NoRecognizedExt(filename)
    /\ DecodedLen(buffer) = 1000000
    /\ IsUnsupportedFormat(outcome)

\* C4: the PDF extractor never fails and never returns the empty string: the
\* trimmed text of the reader, the literal for an empty trimmed text, the
\* degraded placeholder when the reader throws; and an upload whose PDF the
\* reader cannot read goes on to simplifyNotes.
C4_PdfNeverFails ==
    (invoked = <<"pdf">> /\ Extracted) =>
        /\ outcome.tag = "return"
        /\ StrLen(outcome.value) > 0
        /\ outcome.value =
              IF reader.tag = "throw" THEN PdfDegraded
              ELSE IF StrTrim(reader.value) = <<>> THEN NoPdfText
              ELSE StrTrim(reader.value)
        /\ (caller = "upload" /\ pc \in {"simplify", "generating", "responded"}) => aiCalled

C4_Witness ==
    /\ caller = "upload"
    /\ invoked = <<"pdf">>
    /\ reader.tag = "throw"
    /\ outcome = Return(PdfDegraded)
    /\ aiCalled

\* C5: when the Word reader throws, the extraction throws with the reader's
\* message embedded, not a placeholder and not Unsupported file type; when
\* it succeeds, the trimmed text or the literal for an empty trimmed text.
C5_WordFailsLoudly ==
    (invoked = <<"word">> /\ Extracted) =>
        IF reader.tag = "throw"
        THEN /\ outcome.tag = "throw"
             /\ Contains(outcome.value, WordFailed \o reader.value)
             /\ ~IsUnsupportedFormat(outcome)
        ELSE outcome =
                Return(IF StrTrim(reader.value) = <<>> THEN NoWordText
                       ELSE StrTrim(reader.value))

C5_Witness ==
    /\ invoked = <<"word">>
    /\ UnknownMime
    /\ HasExt(filename, <<".", "d", "o", "c">>)
    /\ reader.tag = "throw"
    /\ outcome.tag = "throw"

\* C6: a known MIME type decides alone: its leaf extractor is the one
\* invoked whatever the extension, neither fallback is looked at, and the
\* plain-text path returns the decoded string untrimmed.
C6_MimeFirst ==
    (Dispatched /\ mimetype \in KnownMimes) =>
        /\ invoked = <<CASE mimetype = TextPlain -> "plain"
                         [] mimetype = ApplicationPdf -> "pdf"
                         [] OTHER -> "word">>
        /\ consulted = {}
        /\ mimetype = TextPlain => outcome = Return(Utf8Decode(buffer))

C6_Witness ==
    /\ mimetype = TextPlain
    /\ HasExt(filename, <<".", "p", "d", "f">>)
    /\ invoked = <<"plain">>
    /\ outcome = Return(Utf8Decode(buffer))
    /\ StrTrim(outcome.value) # outcome.value

\* C7: with an unknown MIME type and a recognized extension, in any case of
\* letters, exactly the extractor the extension implies is invoked, with no
\* sniffing and no Unsupported file type.
C7_ExtensionFallback ==
    (Dispatched /\ UnknownMime) =>
        /\ (\E e \in PlainExts : HasExt(filename, e)) =>
               invoked = <<"plain">> /\ outcome = Return(Utf8Decode(buffer))
        /\ (\E e \in PdfExts : HasExt(filename, e)) => invoked = <<"pdf">>
        /\ (\E e \in WordExts : HasExt(filename, e)) => invoked = <<"word">>
        /\ ~NoRecognizedExt(filename) =>
               "sniff" \notin consulted /\ ~IsUnsupportedFormat(outcome)

C7_Witness ==
    /\ UnknownMime
    /\ HasExt(filename, <<".", "d", "o", "c">>)
    /\ filename # ToLowerCase(filename)
    /\ invoked = <<"word">>
    /\ Extracted

----------------------------------------------------------------------------
(* Claims about the request handlers and simplifyNotes *)

\* every character of the string is white space (so is the empty string)
AllWhite(str) == \A i \in 1..Len(str) : str[i].ch \in WhiteSpace

\* the request of POST /api/process-text carries no usable text
InvalidText ==
    \/ reqText.kind # "string"
    \/ AllWhite(reqText.value)
    \/ StrLen(reqText.value) > 200000

UnusableUpload ==
    \/ ~hasFile
    \/ ByteSize(buffer) = 0
    \/ (outcome.tag = "return" /\ AllWhite(outcome.value))

\* C13: POST /api/upload answers 400 without calling simplifyNotes for no
\* file, an empty file or a blank extracted text; a throw of the extraction
\* or of simplifyNotes is answered 500 with its message; one response each.
C13_UploadUsable ==
    caller = "upload" =>
        /\ UnusableUpload => (~aiCalled /\ generateCalls = 0)
        /\ (UnusableUpload /\ pc = "responded") => res.status = 400
        /\ (outcome.tag = "throw" /\ pc \notin {"extracted"}) =>
              (res = [status |-> 500, body |-> outcome.value] /\ ~aiCalled)
        /\ notesResult.tag = "throw" =>
              res = [status |-> 500, body |-> notesResult.value]
        /\ responses = IF pc = "responded" THEN 1 ELSE 0

C13_Witness ==
    /\ caller = "upload"
    /\ hasFile /\ ByteSize(buffer) > 0
    /\ outcome.tag = "return" /\ AllWhite(outcome.value)
    /\ res.status = 400
    /\ ~aiCalled

\* p is a prefix of t, code unit by code unit
RECURSIVE RunPrefix(_, _)
RunPrefix(p, t) ==
    IF p = <<>> THEN TRUE
    ELSE IF t = <<>> THEN FALSE
    ELSE LET a == Head(p)
             b == Head(t)
         IN IF a.ch = b.ch
            THEN IF a.n = b.n THEN RunPrefix(Tail(p), Tail(t))
                 ELSE IF a.n < b.n
                 THEN RunPrefix(Tail(p), <<[ch |-> b.ch, n |-> b.n - a.n]>> \o Tail(t))
                 ELSE RunPrefix(<<[ch |-> a.ch, n |-> a.n - b.n]>> \o Tail(p), Tail(t))
            ELSE a = [ch |-> "D83D", n |-> 1] /\ b.ch = "D83DDCDA" /\ Len(p) = 1

\* C14: the text placed in the prompt is the text itself when it has at most
\* 100000 characters, and otherwise its first 100000 characters followed by
\* '...'; a blank text never reaches the generative service.
C14_PromptBound ==
    generateCalls > 0 =>
        /\ ~AllWhite(SimplifyInput)
        /\ IF StrLen(SimplifyInput) <= 100000
           THEN processText = SimplifyInput
           ELSE /\ Len(processText) >= 2
                /\ <<processText[Len(processText)]>> = Lit("...")
                /\ StrLen(SubSeq(processText, 1, Len(processText) - 1)) = 100000
                /\ RunPrefix(SubSeq(processText, 1, Len(processText) - 1), SimplifyInput)

C14_Witness ==
    /\ caller = "process-text"
    /\ generateCalls = 1
    /\ StrLen(reqText.value) > 100000
    /\ StrLen(reqText.value) <= 200000
    /\ processText # reqText.value
    /\ Includes(processText, "D83D")

----------------------------------------------------------------------------
(* Claims about the clean-up *)

\* C1: the clean-up of either call site is idempotent: cleaning a cleaned
\* text a second time at the same call site leaves it unchanged.
C1_Idempotent ==
    (Len(applied) = 2 /\ applied[1] = applied[2]) => text = prevText

\* the text holds no [label](target) link form
NoLinkForm(s) == \A i \in 1..Len(s) : LinkMatch(s, i)[1] = 0

\* C12: on a text without a link form the clean-up of the backend gives
\* the string the clean-up of the frontend gives for the same text.
C12_SitesAgree ==
    (applied = <<"backend">> /\ NoLinkForm(content)) => text = cleanContent(content)

\* C2: the output of a clean-up has no match of any of the nine stripped
\* marker patterns (three asterisk wrappers, two underscore wrappers, the
\* backtick wrapper, three heading prefixes).
C2_NoMarkerLeft ==
    applied # <<>> => ~HasMarker(text)

----------------------------------------------------------------------------
(* Claims about the line classifier *)

\* a FormattedNotesDisplay has just rendered text
Displayed == applied # <<>> /\ applied[Len(applied)] = "frontend"

\* the indices of the line breaks of s, and its i-th line (counted from 1)
Breaks(s) == {k \in 1..Len(s) : s[k] = "\n"}
NthBreak(s, i) ==
    IF i = 0 THEN 0
    ELSE IF i > Cardinality(Breaks(s)) THEN Len(s) + 1
    ELSE CHOOSE k \in Breaks(s) : Cardinality({j \in Breaks(s) : j <= k}) = i
NthLine(s, i) == SubSeq(s, NthBreak(s, i - 1) + 1, NthBreak(s, i) - 1)

\* the line starts with the whole glyph, both code units of a pair
StartsWithGlyph(t, g) == StartsWithAt(t, 1, Utf16(g))
StartsWithHeaderGlyph(t) == \E g \in HeaderGlyphs : StartsWithGlyph(t, g)

\* C8: one block per line of the cleaned text, in order: as many blocks as
\* line breaks plus one, and block i is the classification of line i.
C8_OneBlockPerLine ==
    Displayed =>
        /\ Len(blocks) = Cardinality(Breaks(text)) + 1
        /\ \A i \in 1..Len(blocks) : blocks[i] = ClassifyLine(NthLine(text, i))

C8_Witness ==
    /\ Displayed
    /\ Len(blocks) = 3
    /\ blocks[1].kind = "Bullet"
    /\ blocks[2].kind = "Spacer"

\* C9: a non-empty trimmed line is a Header exactly when it starts with one
\* of the five header glyphs; with the glyph kept in the content.
C9_HeaderIffGlyph ==
    Displayed =>
        \A i \in 1..Len(blocks) :
            LET t == Trim(NthLine(text, i))
            IN t # <<>> =>
                /\ blocks[i].kind = "Header" <=> StartsWithHeaderGlyph(t)
                /\ blocks[i].kind = "Header" => blocks[i].content = t

\* the classification the precedence rules describe
Precedence(line) ==
    LET t == Trim(line)
    IN IF t = <<>> THEN [kind |-> "Spacer", content |-> <<>>]
       ELSE IF StartsWithHeaderGlyph(t) THEN [kind |-> "Header", content |-> t]
       ELSE IF t[1] = Bullet
       THEN [kind |-> "Bullet", content |-> Trim(Tail(t))]
       ELSE [kind |-> "Paragraph", content |-> t]

\* C10: every line is classified by the precedence Spacer, Header, Bullet,
\* Paragraph, with the contents the rules give.
C10_Precedence ==
    Displayed =>
        \A i \in 1..Len(blocks) : blocks[i] = Precedence(NthLine(text, i))

----------------------------------------------------------------------------
(* Claims about the App component *)

\* C15: every request of handleProcess ends with loading false again;
\* loading is true exactly while a request is in flight, and never more
\* than one request is in flight.
C15_LoadingEnds ==
    /\ [](loading <=> inflight = 1)
    /\ [](inflight <= 1)
    /\ (loading ~> ~loading)

C15_Witness ==
    /\ runs = 2
    /\ event = "settled"
    /\ ~loading
    /\ inflight = 0
    /\ error # <<>>

\* C16: when a run that issued a request completes, either results is set
\* and error is empty, or results is null and error is a message; a call
\* rejected by the validation leaves loading, results and the requests alone.
C16_Outcome ==
    [][/\ event' = "settled" =>
             \/ (results' # 0 /\ error' = <<>>)
             \/ (results' = 0 /\ error' # <<>>)
       /\ event' = "rejected" =>
             (loading' = loading /\ results' = results /\ inflight' = inflight)
      ]_vars

====
